---- MODULE Spec2Model ----
(***************************************************************************)
(* Model of tfan_parsers/StaibDat.py: the import of a winspectro .dat file *)
(* into a StaibDat dictionary.                                             *)
(*                                                                         *)
(* A line of the file is a sequence of lexemes; its text is the lexemes    *)
(* joined by one blank and ended by a newline (pyparsing skips blanks      *)
(* between the elements of a grammar, so the number of blanks is           *)
(* immaterial, except inside the delimiter lexeme ":    ").                *)
(*                                                                         *)
(* Floating point numbers are represented by the integer number of         *)
(* thousandths of the decimal number they are nearest to (1.1 is 1100,     *)
(* the float 1000.0 is 1000000).                                           *)
(***************************************************************************)
EXTENDS Integers, Sequences, FiniteSets, TLC

VARIABLES file, pc, err, self, lineTypeList, datakeysLineIndx, datakeysList, SD,
          call, result

vars == <<file, pc, err, self, lineTypeList, datakeysLineIndx, datakeysList, SD,
          call, result>>

(***************************************************************************)
(* Bounds of the model.                                                    *)
(***************************************************************************)
MaxLen == 5
MaxRows == 4
MaxKernel == 3
MaxOrder == 1

(***************************************************************************)
(* The lexical alphabet.  Each lexeme is classified by the character       *)
(* classes of StaibDat.__init__ (lines 79-82):                             *)
(*   keyword   = Word(alphanums + "-_")                                    *)
(*   valueword = Word(alphanums + "./=:")                                  *)
(*   unitword  = Word(alphas + "%")                                        *)
(*   numvalue  = Combine(Optional("-") + Word(nums))                       *)
(***************************************************************************)
NumVal ==
  ("0" :> 0) @@ ("1" :> 1) @@ ("2" :> 2) @@ ("3" :> 3) @@ ("4" :> 4) @@
  ("5" :> 5) @@ ("6" :> 6) @@ ("7" :> 7) @@ ("8" :> 8) @@ ("9" :> 9) @@
  ("1000" :> 1000) @@ ("1100" :> 1100) @@ ("1200" :> 1200) @@
  ("1300" :> 1300) @@ ("1400" :> 1400) @@ ("1101" :> 1101) @@
  ("1105" :> 1105) @@ ("-1" :> -1)

\* decimal literals: their value in thousandths
DecMilli ==
  ("0.1" :> 100) @@ ("0.2" :> 200) @@ ("1.0" :> 1000) @@ ("1.1" :> 1100) @@
  ("1.2" :> 1200) @@ ("1.3" :> 1300) @@ ("1.4" :> 1400) @@ ("2.0" :> 2000)

\* the digits a decimal literal starts with: what keyword and numvalue
\* match at its start
DecIntPart ==
  ("0.1" :> "0") @@ ("0.2" :> "0") @@ ("1.0" :> "1") @@ ("1.1" :> "1") @@
  ("1.2" :> "1") @@ ("1.3" :> "1") @@ ("1.4" :> "1") @@ ("2.0" :> "2")

UnitInner == ("[V]" :> "V") @@ ("[mV]" :> "mV")

NegLex == {"-1"}
NumLex == DOMAIN NumVal \ NegLex
DecLex == DOMAIN DecMilli
UnitLex == DOMAIN UnitInner
DelimLex == {":    "}
WordLex == {"Data", "Points", "Startenergy", "Stop", "energy", "Stepwidth",
            "SourceEnergy", "Basis", "X", "Y", "reserved", "unreserved",
            "eV"}
AlnumLex == {"C1", "C2"}
JunkLex == {"#"}

Lexemes == NumLex \cup NegLex \cup DecLex \cup UnitLex \cup DelimLex
           \cup WordLex \cup AlnumLex \cup JunkLex

\* keyword matches the whole lexeme
KwLex == NumLex \cup NegLex \cup WordLex \cup AlnumLex
KwWhole(t) == t \in KwLex
\* keyword matches a proper prefix of the lexeme only (the digits before ".")
KwPrefixOnly(t) == t \in DecLex
\* a keyword can be matched that ends where the lexeme ends
KwSuffix(t) == KwWhole(t) \/ t \in DecLex

NumvalueLex == NumLex \cup NegLex
NumWhole(t) == t \in NumvalueLex
NumPrefixOnly(t) == t \in DecLex
NumSuffix(t) == NumWhole(t) \/ t \in AlnumLex \cup DecLex

\* valueword matches the whole lexeme (of the delimiter: its colon)
ValLex == NumLex \cup WordLex \cup AlnumLex \cup DecLex \cup DelimLex
ValWhole(t) == t \in ValLex

\* the text valueword yields for a lexeme
ValText(t) == IF t \in DelimLex THEN ":" ELSE t

\* float(n) of an integer n, in thousandths
Float(n) == n * 1000

(***************************************************************************)
(* Helpers on sequences.                                                   *)
(***************************************************************************)
RECURSIVE RunEnd(_, _, _)
\* the last index j >= i-1 such that line[i..j] are all in the set S:
\* where a OneOrMore(Word) that starts at lexeme i stops
RunEnd(line, i, S) ==
  IF i <= Len(line) /\ line[i] \in S THEN RunEnd(line, i + 1, S) ELSE i - 1

Sub(s, a, b) == IF a > b THEN << >> ELSE SubSeq(s, a, b)

RECURSIVE Count(_, _)
\* list.count(x)
Count(s, x) ==
  IF s = << >> THEN 0
  ELSE (IF Head(s) = x THEN 1 ELSE 0) + Count(Tail(s), x)

RECURSIVE Index(_, _)
\* list.index(x), 1-based; 0 when x is absent (the code never asks then)
Index(s, x) ==
  IF s = << >> THEN 0
  ELSE IF Head(s) = x THEN 1
  ELSE IF Index(Tail(s), x) = 0 THEN 0 ELSE 1 + Index(Tail(s), x)

RECURSIVE Concat(_)
\* "".join(list)
Concat(s) == IF s = << >> THEN "" ELSE Head(s) \o Concat(Tail(s))

(***************************************************************************)
(* self.__metadata (lines 85-95): key [unit] ":    " value                 *)
(* MetadataAt matches the grammar at lexeme i; anchored = FALSE lets the   *)
(* match start inside the lexeme, as searchString tries every character.   *)
(***************************************************************************)
NoMatch == [ok |-> FALSE, key |-> << >>, unit |-> "", value |-> << >>]

MetadataAt(line, i, anchored) ==
  IF ~ (i <= Len(line) /\ (IF anchored THEN KwWhole(line[i]) ELSE KwSuffix(line[i])))
  THEN NoMatch
  ELSE
    LET keyEnd == RunEnd(line, i + 1, KwLex)
        j == keyEnd + 1
        hasUnit == j <= Len(line) /\ line[j] \in UnitLex
        d == IF hasUnit THEN j + 1 ELSE j
        v == d + 1
    IN IF j <= Len(line) /\ ~ KwPrefixOnly(line[j])
          /\ d <= Len(line) /\ line[d] \in DelimLex
          /\ v <= Len(line) /\ ValWhole(line[v])
       THEN [ok |-> TRUE,
             key |-> Sub(line, i, keyEnd),
             unit |-> IF hasUnit THEN UnitInner[line[j]] ELSE "",
             value |-> [k \in 1..(RunEnd(line, v, ValLex) - v + 1) |->
                          ValText(line[v + k - 1])]]
       ELSE NoMatch

\* self.__metadata.parseString(line); ok = FALSE is ParseException
MetadataParse(line) == MetadataAt(line, 1, TRUE)

\* len(self.__metadata.searchString(line)) != 0
MetadataSearch(line) == \E i \in 1..Len(line) : MetadataAt(line, i, FALSE).ok

(***************************************************************************)
(* self.__reserved (line 96): Literal("reserved"), found anywhere.         *)
(***************************************************************************)
\* the lexemes that contain the literal
ReservedInside == {"reserved", "unreserved"}

ReservedSearch(line) == \E i \in 1..Len(line) : line[i] \in ReservedInside

(***************************************************************************)
(* self.__datavalues (lines 101-102): numvalue OneOrMore(numvalue), each   *)
(* token cast to float.  The result is the sequence of the numbers.        *)
(***************************************************************************)
DatavaluesAt(line, i, anchored) ==
  IF ~ (i <= Len(line) /\ (IF anchored THEN NumWhole(line[i]) ELSE NumSuffix(line[i])))
  THEN [ok |-> FALSE, vals |-> << >>]
  ELSE
    LET runEnd == RunEnd(line, i + 1, NumvalueLex)
        extra == runEnd + 1 <= Len(line) /\ NumPrefixOnly(line[runEnd + 1])
        first == IF NumWhole(line[i]) THEN Float(NumVal[line[i]]) ELSE 0
        whole == [k \in 1..(runEnd - i) |-> Float(NumVal[line[i + k]])]
        tail == IF extra THEN << Float(NumVal[DecIntPart[line[runEnd + 1]]]) >>
                ELSE << >>
    IN IF runEnd - i >= 1 \/ extra
       THEN [ok |-> TRUE, vals |-> << first >> \o whole \o tail]
       ELSE [ok |-> FALSE, vals |-> << >>]

DatavaluesParse(line) == DatavaluesAt(line, 1, TRUE)

DatavaluesSearch(line) == \E i \in 1..Len(line) : DatavaluesAt(line, i, FALSE).ok

(***************************************************************************)
(* self.__datakeys (lines 97-100): Group(keyword [unit])                   *)
(* OneOrMore(Group(keyword [unit])).                                       *)
(***************************************************************************)
RECURSIVE DatakeyGroups(_, _)
\* the groups matched from the start of lexeme i on
DatakeyGroups(line, i) ==
  IF i > Len(line) THEN << >>
  ELSE IF KwWhole(line[i])
  THEN IF i + 1 <= Len(line) /\ line[i + 1] \in UnitLex
       THEN << [key |-> line[i], unit |-> UnitInner[line[i + 1]]] >>
            \o DatakeyGroups(line, i + 2)
       ELSE << [key |-> line[i], unit |-> ""] >> \o DatakeyGroups(line, i + 1)
  ELSE IF KwPrefixOnly(line[i])
  THEN << [key |-> DecIntPart[line[i]], unit |-> ""] >>
  ELSE << >>

DatakeysAt(line, i, anchored) ==
  IF ~ (i <= Len(line) /\ (IF anchored THEN KwWhole(line[i]) ELSE KwSuffix(line[i])))
  THEN [ok |-> FALSE, keys |-> << >>]
  ELSE
    LET groups ==
          IF KwWhole(line[i]) THEN DatakeyGroups(line, i)
          ELSE \* the match starts at the digits that end a decimal literal
            IF i + 1 <= Len(line) /\ line[i + 1] \in UnitLex
            THEN << [key |-> line[i], unit |-> UnitInner[line[i + 1]]] >>
                 \o DatakeyGroups(line, i + 2)
            ELSE << [key |-> line[i], unit |-> ""] >> \o DatakeyGroups(line, i + 1)
    IN IF Len(groups) >= 2 THEN [ok |-> TRUE, keys |-> groups]
       ELSE [ok |-> FALSE, keys |-> << >>]

DatakeysParse(line) == DatakeysAt(line, 1, TRUE)

DatakeysSearch(line) == \E i \in 1..Len(line) : DatakeysAt(line, i, FALSE).ok

(***************************************************************************)
(* StaibDat.__labelline (lines 186-200)                                    *)
(***************************************************************************)
labelline(line) ==
  IF MetadataSearch(line) THEN "metadata"
  ELSE IF ReservedSearch(line) THEN "reserved"
  ELSE IF DatavaluesSearch(line) THEN "datavalues"
  ELSE IF DatakeysSearch(line) THEN "datakeys"
  ELSE "other"

\* StaibDat.__labelstructure (lines 136-148)
labelstructure(fileText) == [i \in 1..Len(fileText) |-> labelline(fileText[i])]

(***************************************************************************)
(* The values a StaibDat dictionary holds.  t is the shape of the value:   *)
(*   "int", "float", "str"  a bare scalar (n the number, s the string)     *)
(*   "vu"    {"value": scalar, "unit": u}, vt the type of the scalar       *)
(*   "col"   {"value": a, "unit": u}, a the list of floats of a column     *)
(*   "arr"   numpy array a                                                 *)
(*   "lines" list l of the lines of the file                               *)
(***************************************************************************)
V0 == [t |-> "", vt |-> "", n |-> 0, s |-> "", u |-> "", a |-> << >>, l |-> << >>]
IntV(n) == [V0 EXCEPT !.t = "int", !.n = n]
FloatV(m) == [V0 EXCEPT !.t = "float", !.n = m]
StrV(s) == [V0 EXCEPT !.t = "str", !.s = s]
VU(x, unit) == [x EXCEPT !.t = "vu", !.vt = x.t, !.u = unit]
ColV(a, unit) == [V0 EXCEPT !.t = "col", !.a = a, !.u = unit]
ArrV(a) == [V0 EXCEPT !.t = "arr", !.a = a]
LinesV(l) == [V0 EXCEPT !.t = "lines", !.l = l]

EmptyDict == [k \in {} |-> V0]
Has(d, k) == k \in DOMAIN d
\* d[k] = v
Put(d, k, v) == [x \in DOMAIN d \cup {k} |-> IF x = k THEN v ELSE d[x]]

FileName == "testfiles/good_data.dat"

\* what the variable SD of the caller holds while StaibDat(filename) has not
\* returned (staibdattest.py: SD = StaibDat(self.filename))
NoDataset == EmptyDict

RECURSIVE JoinSp(_)
\* " ".join(tokens)
JoinSp(s) ==
  IF s = << >> THEN ""
  ELSE IF Len(s) = 1 THEN s[1]
  ELSE s[1] \o " " \o JoinSp(Tail(s))

(***************************************************************************)
(* StaibDat.__verifystructure (lines 151-183).  The result is the          *)
(* exception raised, "none" when the method returns.                       *)
(***************************************************************************)
RECURSIVE Compress(_)
\* lines 167-173: consecutive equal labels collapsed to one
Compress(labels) ==
  IF Len(labels) <= 1 THEN labels
  ELSE LET c == Compress(Sub(labels, 1, Len(labels) - 1))
       IN IF labels[Len(labels)] /= c[Len(c)]
          THEN Append(c, labels[Len(labels)]) ELSE c

RECURSIVE CheckRows(_, _, _)
\* lines 179-183: the first row, in file order, that fails decides
CheckRows(fileText, i, nkeys) ==
  IF i > Len(fileText) THEN "none"
  ELSE LET r == DatavaluesParse(fileText[i])
       IN IF ~ r.ok THEN "ParseException"
          ELSE IF nkeys /= Len(r.vals) THEN "FormatError"
          ELSE CheckRows(fileText, i + 1, nkeys)

verifystructure(fileText, labels, keysList, keysIndx) ==
  IF \E i \in 1..Len(labels) : labels[i] = "other" THEN "FormatError"
  ELSE IF Count(labels, "datakeys") /= 1 THEN "FormatError"
  ELSE IF Compress(labels) /= <<"metadata", "reserved", "datakeys", "datavalues">>
  THEN "FormatError"
  ELSE CheckRows(fileText, keysIndx + 1, Len(keysList))

(***************************************************************************)
(* StaibDat.__parsetext (lines 237-286).  The result is the exception      *)
(* raised ("none" when the method returns) and the dictionary.             *)
(***************************************************************************)
\* lines 248-255: int first, then float, else the string
Coerce(tokens) ==
  IF Len(tokens) = 1 /\ tokens[1] \in NumLex THEN IntV(NumVal[tokens[1]])
  ELSE IF Len(tokens) = 1 /\ tokens[1] \in DecLex THEN FloatV(DecMilli[tokens[1]])
  ELSE StrV(JoinSp(tokens))

RECURSIVE ParseMetadata_FirstWriteWins(_, _, _, _)
\* ParseMetadata that keeps the entry a key already has
ParseMetadata_FirstWriteWins(d, fileText, labels, i) ==
  IF i > Len(fileText) THEN [err |-> "none", d |-> d]
  ELSE IF labels[i] /= "metadata" THEN ParseMetadata_FirstWriteWins(d, fileText, labels, i + 1)
  ELSE LET m == MetadataParse(fileText[i])
           value == Coerce(m.value)
           key == Concat(m.key)
       IN IF ~ m.ok THEN [err |-> "ParseException", d |-> d]
          ELSE ParseMetadata_FirstWriteWins(
                 IF Has(d, key) THEN d
                 ELSE Put(d, key, IF m.unit /= "" THEN VU(value, m.unit) ELSE value),
                 fileText, labels, i + 1)

RECURSIVE ParseMetadata(_, _, _, _)
\* lines 243-267, from line i on
ParseMetadata(d, fileText, labels, i) ==
  IF i > Len(fileText) THEN [err |-> "none", d |-> d]
  ELSE IF labels[i] /= "metadata" THEN ParseMetadata(d, fileText, labels, i + 1)
  ELSE LET m == MetadataParse(fileText[i])
           value == Coerce(m.value)
           key == Concat(m.key)
       IN IF ~ m.ok THEN [err |-> "ParseException", d |-> d]
          ELSE ParseMetadata(
                 Put(d, key, IF m.unit /= "" THEN VU(value, m.unit) ELSE value),
                 fileText, labels, i + 1)

RECURSIVE MakeColumns(_, _, _)
\* lines 272-278, from datakey i on
MakeColumns(d, keysList, i) ==
  IF i > Len(keysList) THEN d
  ELSE MakeColumns(Put(d, keysList[i].key, ColV(<< >>, keysList[i].unit)),
                   keysList, i + 1)

RECURSIVE AppendRow(_, _, _, _)
\* lines 285-286, from value i of the row on
AppendRow(d, keysList, vals, i) ==
  IF i > Len(vals) THEN d
  ELSE LET k == keysList[i].key
       IN AppendRow([d EXCEPT ![k].a = Append(d[k].a, vals[i])],
                    keysList, vals, i + 1)

RECURSIVE FillColumns(_, _, _, _)
\* lines 281-286, from line i on
FillColumns(d, fileText, keysList, i) ==
  IF i > Len(fileText) THEN d
  ELSE FillColumns(AppendRow(d, keysList, DatavaluesParse(fileText[i]).vals, 1),
                   fileText, keysList, i + 1)

parsetext(d, fileText, labels, keysList, keysIndx) ==
  LET m == ParseMetadata(d, fileText, labels, 1)
  IN IF m.err /= "none" THEN m
     ELSE [err |-> "none",
           d |-> FillColumns(MakeColumns(m.d, keysList, 1), fileText,
                             keysList, keysIndx + 1)]

(***************************************************************************)
(* Python's round(x, 2) of the float nearest to m thousandths, again in    *)
(* thousandths.  A number with third decimal 5 is not a tie as a float     *)
(* unless it is a multiple of 0.125: HalfUp lists the m below 1500 whose   *)
(* float is at or above the tie (a tie rounds away from zero); the numbers *)
(* of the model stay below 1500 where the third decimal matters.           *)
(***************************************************************************)
HalfUp ==
  {5, 25, 35, 55, 65, 85, 95, 115, 125, 135, 165, 195, 225, 255, 265, 275,
   315, 325, 335, 375, 385, 395, 405, 445, 455, 465, 505, 515, 525, 535, 545,
   555, 625, 635, 645, 655, 665, 675, 685, 755, 765, 775, 785, 795, 805, 875,
   885, 895, 905, 915, 925, 935, 1125, 1135, 1145, 1155, 1165, 1175, 1185,
   1195, 1205, 1215, 1225, 1235, 1245, 1375, 1385, 1395, 1405, 1415, 1425,
   1435, 1445, 1455, 1465, 1475, 1485, 1495}

Abs(m) == IF m < 0 THEN -m ELSE m

Round2Abs(m) ==
  IF m % 10 < 5 THEN m - (m % 10)
  ELSE IF m % 10 > 5 THEN m - (m % 10) + 10
  ELSE IF m \in HalfUp THEN m + 5
  ELSE m - 5

Round2(m) == IF m < 0 THEN -Round2Abs(-m) ELSE Round2Abs(m)

\* x / 1000 of a float x
Div1000(x) == x \div 1000

(***************************************************************************)
(* StaibDat.__verifydata (lines 202-234).  The result is the exception     *)
(* raised, "none" when the method returns.                                 *)
(***************************************************************************)
\* the exception of evaluating self[key]["value"] as a number, or "none"
ValueOfErr(d, key) ==
  IF ~ Has(d, key) THEN "KeyError"
  ELSE IF d[key].t = "vu" /\ d[key].vt \in {"int", "float"} THEN "none"
  ELSE "TypeError"

\* a scalar as a float
AsFloat(x) == IF x.t = "int" \/ (x.t = "vu" /\ x.vt = "int") THEN Float(x.n) ELSE x.n

\* line 208: self["DataPoints"] equals the length n; a value that is not a
\* number equals no length
DataPointsIs(d, n) ==
  d["DataPoints"].t \in {"int", "float"} /\ AsFloat(d["DataPoints"]) = Float(n)

\* lines 220-227: the differences, the last one first
diffList(basisList) ==
  [k \in 1..(Len(basisList) - 1) |->
     Round2(Div1000(basisList[Len(basisList) - k + 1] - basisList[Len(basisList) - k]))]

\* verifydata without the test of line 229 that the differences are all equal
verifydata_NoUniformityCheck(d) ==
  \* line 208
  IF ~ Has(d, "DataPoints") \/ ~ Has(d, "Basis") THEN "KeyError"
  ELSE IF d["Basis"].t = "vu" /\ d["Basis"].vt = "str"
  \* a Basis of the metadata with a unit and a string value: len() is the
  \* length of the string (line 208), its last character is not a number
  \* (line 212)
  THEN IF ~ DataPointsIs(d, Len(d["Basis"].s)) THEN "FormatError"
       ELSE IF ValueOfErr(d, "Stopenergy") /= "none" THEN ValueOfErr(d, "Stopenergy")
       ELSE IF d["Basis"].s = "" THEN "IndexError"
       ELSE "TypeError"
  ELSE IF d["Basis"].t /= "col" THEN "TypeError"
  ELSE
    LET basis == d["Basis"].a
        dl == diffList(basis)
    IN IF ~ DataPointsIs(d, Len(basis)) THEN "FormatError"
       \* line 212
       ELSE IF ValueOfErr(d, "Stopenergy") /= "none" THEN ValueOfErr(d, "Stopenergy")
       ELSE IF basis = << >> THEN "IndexError"
       ELSE IF Round2(AsFloat(d["Stopenergy"])) /= Round2(Div1000(basis[Len(basis)]))
       THEN "FormatError"
       \* line 216
       ELSE IF ValueOfErr(d, "Startenergy") /= "none" THEN ValueOfErr(d, "Startenergy")
       ELSE IF Round2(AsFloat(d["Startenergy"])) /= Round2(Div1000(basis[1]))
       THEN "FormatError"
       \* line 229
       ELSE IF dl = << >> THEN "IndexError"
       \* line 233
       ELSE IF ~ Has(d, "Stepwidth") THEN "KeyError"
       ELSE IF d["Stepwidth"].t \notin {"int", "float"} THEN "TypeError"
       ELSE IF dl[1] /= Round2(AsFloat(d["Stepwidth"])) THEN "FormatError"
       ELSE "none"

verifydata(d) ==
  \* line 208
  IF ~ Has(d, "DataPoints") \/ ~ Has(d, "Basis") THEN "KeyError"
  ELSE IF d["Basis"].t = "vu" /\ d["Basis"].vt = "str"
  \* a Basis of the metadata with a unit and a string value: len() is the
  \* length of the string (line 208), its last character is not a number
  \* (line 212)
  THEN IF ~ DataPointsIs(d, Len(d["Basis"].s)) THEN "FormatError"
       ELSE IF ValueOfErr(d, "Stopenergy") /= "none" THEN ValueOfErr(d, "Stopenergy")
       ELSE IF d["Basis"].s = "" THEN "IndexError"
       ELSE "TypeError"
  ELSE IF d["Basis"].t /= "col" THEN "TypeError"
  ELSE
    LET basis == d["Basis"].a
        dl == diffList(basis)
    IN IF ~ DataPointsIs(d, Len(basis)) THEN "FormatError"
       \* line 212
       ELSE IF ValueOfErr(d, "Stopenergy") /= "none" THEN ValueOfErr(d, "Stopenergy")
       ELSE IF basis = << >> THEN "IndexError"
       ELSE IF Round2(AsFloat(d["Stopenergy"])) /= Round2(Div1000(basis[Len(basis)]))
       THEN "FormatError"
       \* line 216
       ELSE IF ValueOfErr(d, "Startenergy") /= "none" THEN ValueOfErr(d, "Startenergy")
       ELSE IF Round2(AsFloat(d["Startenergy"])) /= Round2(Div1000(basis[1]))
       THEN "FormatError"
       \* line 229
       ELSE IF dl = << >> THEN "IndexError"
       ELSE IF \E k \in 1..Len(dl) : dl[k] /= dl[1] THEN "FormatError"
       \* line 233
       ELSE IF ~ Has(d, "Stepwidth") THEN "KeyError"
       ELSE IF d["Stepwidth"].t \notin {"int", "float"} THEN "TypeError"
       ELSE IF dl[1] /= Round2(AsFloat(d["Stepwidth"])) THEN "FormatError"
       ELSE "none"

(***************************************************************************)
(* StaibDat.__userfriendify (lines 289-309).  The result is the exception  *)
(* raised ("none" when the method returns) and the dictionary.             *)
(***************************************************************************)
\* str(n) for the channel numbers
Str == (1 :> "1") @@ (2 :> "2") @@ (3 :> "3") @@ (4 :> "4") @@ (5 :> "5")
       @@ (6 :> "6") @@ (7 :> "7") @@ (8 :> "8") @@ (9 :> "9")

RECURSIVE Channels(_, _, _)
\* lines 307-309, from the datakey after the i-th on; indexing a numpy array
\* by "value" raises IndexError (ValueError with an old numpy)
Channels(d, keysList, i) ==
  IF i >= Len(keysList) THEN [err |-> "none", d |-> d]
  ELSE LET src == d[keysList[i + 1].key]
       IN IF src.t /= "col" THEN [err |-> "IndexError", d |-> d]
          ELSE Channels(Put(d, "C" \o Str[i], ArrV(src.a)), keysList, i + 1)

userfriendify(d, keysList) ==
  LET KE == [i \in 1..Len(d["Basis"].a) |-> Div1000(d["Basis"].a[i])]
      d1 == Put(d, "KE", ArrV(KE))
  IN IF ~ Has(d1, "SourceEnergy") THEN [err |-> "KeyError", d |-> d1]
     ELSE IF d1["SourceEnergy"].t \notin {"int", "float"}
     THEN [err |-> "TypeError", d |-> d1]
     ELSE Channels(
            Put(d1, "BE",
                ArrV([i \in 1..Len(KE) |-> AsFloat(d1["SourceEnergy"]) - KE[i]])),
            keysList, 1)

(***************************************************************************)
(* StaibDat.smooth, StaibDat.differentiate and StaibDat.__savitzky_golay   *)
(* (lines 311-400).  The result is the exception raised ("none" when an    *)
(* array is returned) and the array.  A sample of the array is the sum of  *)
(* weight * data[i + offset] over the window (lines 396-399); it is        *)
(* represented by the operands data[i + offset] of the sum, in the order   *)
(* of the offsets: the weights m are a function of kernel, order and deriv *)
(* alone (lines 379-383).                                                  *)
(***************************************************************************)
\* the default values of kernel and order (lines 311 and 334)
DefaultKernel == 13
DefaultOrder == 3

SGResult(e, a) == [err |-> e, a |-> a]

\* numpy.zeros(n)
zeros(n) == [i \in 1..n |-> 0]

\* savitzky_golay with the zeros of line 394 put before the data only
savitzky_golay_PaddedBeforeOnly(data, kernel0, order0, deriv) ==
  LET kernel == Abs(kernel0)
      order == Abs(order0)
      window_size == kernel
      half_window == (window_size - 1) \div 2
      padded == zeros(half_window) \o data.a
  IN IF kernel % 2 /= 1 \/ kernel < 1 THEN SGResult("TypeError", << >>)
     ELSE IF kernel < order + 2 THEN SGResult("TypeError", << >>)
     ELSE IF deriv > order THEN SGResult("IndexError", << >>)
     ELSE IF data.t = "lines"
     THEN SGResult(IF data.l = << >> THEN "none" ELSE "TypeError", << >>)
     ELSE IF data.t /= "arr" THEN SGResult("ValueError", << >>)
     ELSE SGResult("none",
                   [i \in 1..(Len(padded) - 2 * half_window) |->
                      [k \in 1..window_size |-> padded[i + k - 1]]])

\* savitzky_golay with ValueError raised for an even kernel
savitzky_golay_KernelValueError(data, kernel0, order0, deriv) ==
  LET kernel == Abs(kernel0)
      order == Abs(order0)
      window_size == kernel
      half_window == (window_size - 1) \div 2
      padded == zeros(half_window) \o data.a \o zeros(half_window)
  IN IF kernel % 2 /= 1 \/ kernel < 1 THEN SGResult("ValueError", << >>)
     ELSE IF kernel < order + 2 THEN SGResult("TypeError", << >>)
     ELSE IF deriv > order THEN SGResult("IndexError", << >>)
     ELSE IF data.t = "lines"
     THEN SGResult(IF data.l = << >> THEN "none" ELSE "TypeError", << >>)
     ELSE IF data.t /= "arr" THEN SGResult("ValueError", << >>)
     ELSE SGResult("none",
                   [i \in 1..(Len(padded) - 2 * half_window) |->
                      [k \in 1..window_size |-> padded[i + k - 1]]])

savitzky_golay(data, kernel0, order0, deriv) ==
  LET \* lines 369-370
      kernel == Abs(kernel0)
      order == Abs(order0)
      \* lines 379-385: b has kernel rows and order + 1 columns, pinv(b) has
      \* order + 1 rows of kernel weights, m is its row deriv
      window_size == kernel
      half_window == (window_size - 1) \div 2
      \* line 394
      padded == zeros(half_window) \o data.a \o zeros(half_window)
  IN \* line 373
     IF kernel % 2 /= 1 \/ kernel < 1 THEN SGResult("TypeError", << >>)
     \* line 375
     ELSE IF kernel < order + 2 THEN SGResult("TypeError", << >>)
     \* line 383: pinv(b).A has no row deriv
     ELSE IF deriv > order THEN SGResult("IndexError", << >>)
     \* lines 394-398: numpy concatenates the zeros and the lines to an array
     \* of strings; the product of a weight and a string is a TypeError
     ELSE IF data.t = "lines"
     THEN SGResult(IF data.l = << >> THEN "none" ELSE "TypeError", << >>)
     \* line 394: a dictionary, a number or a string is a zero-dimensional
     \* array, which numpy.concatenate refuses with ValueError
     ELSE IF data.t /= "arr" THEN SGResult("ValueError", << >>)
     \* lines 395-400
     ELSE SGResult("none",
                   [i \in 1..(Len(padded) - 2 * half_window) |->
                      [k \in 1..window_size |-> padded[i + k - 1]]])

\* lines 311-332; self[key] of a missing key is a KeyError
smooth(d, key, kernel, order) ==
  IF ~ Has(d, key) THEN SGResult("KeyError", << >>)
  ELSE savitzky_golay(d[key], kernel, order, 0)

\* lines 334-355
differentiate(d, key, kernel, order) ==
  IF ~ Has(d, key) THEN SGResult("KeyError", << >>)
  ELSE savitzky_golay(d[key], kernel, order, 1)

\* the calls of the model: every key of the dictionary and a key it has not,
\* the kernels and orders up to the bounds, and the defaults
Kernels == (0..MaxKernel) \cup {DefaultKernel}
Orders == (0..MaxOrder) \cup {DefaultOrder}
MissingKey == "C0"
NoCall == [op |-> "none", key |-> "", kernel |-> 0, order |-> 0]
NoResult == SGResult("none", << >>)

(***************************************************************************)
(* StaibDat.__init__ (lines 115-134) as a function of the lines of the     *)
(* file: the exception raised, "none" when a StaibDat is returned.         *)
(***************************************************************************)
ImportErr(f) ==
  LET labels == labelstructure(f)
      indx == Index(labels, "datakeys")
      keys == IF indx = 0 THEN [ok |-> TRUE, keys |-> << >>]
              ELSE DatakeysParse(f[indx])
      d0 == Put(Put(EmptyDict, "filename", StrV(FileName)), "fileText", LinesV(f))
      e1 == verifystructure(f, labels, keys.keys, indx)
      p == parsetext(d0, f, labels, keys.keys, indx)
      e2 == verifydata(p.d)
  IN IF ~ keys.ok THEN "ParseException"
     ELSE IF e1 /= "none" THEN e1
     ELSE IF p.err /= "none" THEN p.err
     ELSE IF e2 /= "none" THEN e2
     ELSE userfriendify(p.d, keys.keys).err

\* the import returns a StaibDat
Accepts(f) == ImportErr(f) = "none"

(***************************************************************************)
(* The files imported.  Two families:                                      *)
(*  - every sequence of at most MaxLen lines of FreeLines (a line of each  *)
(*    label, and lines that a grammar finds by search but cannot parse     *)
(*    from their start);                                                   *)
(*  - a well-formed file of 1..MaxRows data rows, as written by            *)
(*    winspectro, with at most one line inserted, replaced or deleted (the *)
(*    way staibdattest.py builds its bad files from good_data.dat);        *)
(*  - files whose Basis is a metadata line and not a column.               *)
(***************************************************************************)
BasisLex == <<"1000", "1100", "1200", "1300", "1400">>
Chan1Lex == <<"5", "6", "7", "8", "9">>
Chan2Lex == <<"1", "2", "3", "4", "5">>
StopLex == <<"1.0", "1.1", "1.2", "1.3", "1.4">>

GoodHeader == <<"Basis", "[mV]", "X", "Y">>

GoodFile(n, se) ==
  << <<"Data", "Points", ":    ", Str[n]>>,
     <<"Startenergy", "[V]", ":    ", "1.0">>,
     <<"Stop", "energy", "[V]", ":    ", StopLex[n]>>,
     <<"Stepwidth", ":    ", "0.1">>,
     <<"SourceEnergy", ":    ", se>>,
     <<"reserved">>,
     <<"reserved">>,
     GoodHeader >>
  \o [i \in 1..n |-> <<BasisLex[i], Chan1Lex[i], Chan2Lex[i]>>]

GoodFiles == {GoodFile(n, se) : n \in 1..MaxRows, se \in {"0", "2.0"}}

FreeLines ==
  { << >>,
    <<"reserved">>,
    <<"Data", "Points", ":    ", "3">>,
    <<"#", "Stepwidth", ":    ", "0.1">>,
    <<"Basis", "[mV]", "X">>,
    <<"#", "Basis", "X">>,
    <<"1000", "5">>,
    <<"#", "1000", "5", "7">> }

EditLines ==
  FreeLines \cup
  { <<"#">>,
    <<"X">>,
    <<"1000">>,
    <<"unreserved">>,
    <<"X", "reserved">>,
    <<"5", "7", "reserved">>,
    <<"Data", "Points", ":    ", "2.0">>,
    <<"Stop", "energy", "[V]", ":    ", "1.2">>,
    <<"X", "Y">>,
    <<"Startenergy", "[V]", ":    ", "1.1">>,
    <<"Stop", "energy", ":    ", "1.3">>,
    <<"Stepwidth", ":    ", "0.2">>,
    <<"Stepwidth", "[V]", ":    ", "0.2">>,
    <<"SourceEnergy", "[V]", ":    ", "0">>,
    <<"SourceEnergy", ":    ", "eV">>,
    <<"X", ":    ", "5">>,
    <<"eV", "[V]", ":    ", "C1", "1.1">>,
    <<"Basis", "[mV]", "X", "X">>,
    <<"Basis", "[mV]", "C1", "C2">>,
    <<"Basis", "C2", "C1">>,
    <<"X", "Y", "C1">>,
    <<"1101", "6", "2">>,
    <<"1300", "6", "2">>,
    <<"1100", "6">>,
    <<"1100", "6", "2", "3">>,
    <<"1100", "6", "2", "#">>,
    <<"#", "1100", "6", "2", "3">>,
    <<"1100", "0.1", "2">> }

Insert(f, i, line) == Sub(f, 1, i - 1) \o << line >> \o Sub(f, i, Len(f))
Replace(f, i, line) == [f EXCEPT ![i] = line]
Delete(f, i) == Sub(f, 1, i - 1) \o Sub(f, i + 1, Len(f))

EditedFiles ==
  UNION { {f} \cup {Delete(f, i) : i \in 1..Len(f)}
              \cup {Replace(f, i, line) : i \in 1..Len(f), line \in EditLines}
              \cup {Insert(f, i, line) : i \in 1..(Len(f) + 1), line \in EditLines}
          : f \in GoodFiles }

\* files whose Basis is a line of the metadata with a unit and a string
\* value, and no column: n declared data points, with or without the Stop
\* energy line
BasisInMetadataFile(n, stop) ==
  << <<"Data", "Points", ":    ", Str[n]>>,
     <<"Basis", "[mV]", ":    ", "X">>,
     <<"Startenergy", "[V]", ":    ", "1.0">> >>
  \o (IF stop THEN << <<"Stop", "energy", "[V]", ":    ", "1.1">> >> ELSE << >>)
  \o << <<"Stepwidth", ":    ", "0.1">>,
        <<"SourceEnergy", ":    ", "0">>,
        <<"reserved">>,
        <<"reserved">>,
        <<"X", "Y">>,
        <<"1000", "5">>,
        <<"1100", "6">> >>

BasisInMetadataFiles ==
  {BasisInMetadataFile(n, stop) : n \in {1, 3}, stop \in BOOLEAN}

FreeFiles == UNION {[1..k -> FreeLines] : k \in 0..MaxLen}

Files == FreeFiles \cup EditedFiles \cup BasisInMetadataFiles

(***************************************************************************)
(* StaibDat.__init__ (lines 69-134), one action per step.                  *)
(***************************************************************************)
Init ==
  /\ file \in Files
  /\ pc = "Start"
  /\ err = "none"
  /\ self = EmptyDict
  /\ lineTypeList = << >>
  /\ datakeysLineIndx = 0
  /\ datakeysList = << >>
  /\ SD = NoDataset
  /\ call = NoCall
  /\ result = NoResult

\* lines 107-113
ReadLines ==
  /\ pc = "Start"
  /\ self' = Put(Put(self, "filename", StrV(FileName)), "fileText", LinesV(file))
  /\ pc' = "LinesRead"
  /\ UNCHANGED <<file, err, lineTypeList, datakeysLineIndx, datakeysList, SD,
                 call, result>>

\* line 116
Labelstructure ==
  /\ pc = "LinesRead"
  /\ lineTypeList' = labelstructure(self["fileText"].l)
  /\ pc' = "Classified"
  /\ UNCHANGED <<file, err, self, datakeysLineIndx, datakeysList, SD,
                 call, result>>

\* lines 119-122
LocateDatakeys ==
  /\ pc = "Classified"
  /\ LET indx == Index(lineTypeList, "datakeys")
         r == DatakeysParse(self["fileText"].l[indx])
     IN IF indx = 0
        THEN /\ pc' = "Located"
             /\ UNCHANGED <<err, datakeysLineIndx, datakeysList>>
        ELSE /\ datakeysLineIndx' = indx
             /\ datakeysList' = r.keys
             /\ pc' = IF r.ok THEN "Located" ELSE "Crashed"
             /\ err' = IF r.ok THEN "none" ELSE "ParseException"
  /\ UNCHANGED <<file, self, lineTypeList, SD, call, result>>

\* the state an exception leaves: FormatError is the rejection of the file
Raised(e, ok) ==
  IF e = "none" THEN ok ELSE IF e = "FormatError" THEN "Rejected" ELSE "Crashed"

\* line 125
Verifystructure ==
  /\ pc = "Located"
  /\ LET e == verifystructure(self["fileText"].l, lineTypeList, datakeysList,
                              datakeysLineIndx)
     IN /\ err' = e
        /\ pc' = Raised(e, "StructureValidated")
  /\ UNCHANGED <<file, self, lineTypeList, datakeysLineIndx, datakeysList, SD,
                 call, result>>

\* line 128
Parsetext ==
  /\ pc = "StructureValidated"
  /\ LET r == parsetext(self, self["fileText"].l, lineTypeList, datakeysList,
                        datakeysLineIndx)
     IN /\ err' = r.err
        /\ self' = r.d
        /\ pc' = Raised(r.err, "Extracted")
  /\ UNCHANGED <<file, lineTypeList, datakeysLineIndx, datakeysList, SD,
                 call, result>>

\* line 131
Verifydata ==
  /\ pc = "Extracted"
  /\ LET e == verifydata(self)
     IN /\ err' = e
        /\ pc' = Raised(e, "ConsistencyValidated")
  /\ UNCHANGED <<file, self, lineTypeList, datakeysLineIndx, datakeysList, SD,
                 call, result>>

\* line 134, and the return of the constructor to the caller
Userfriendify ==
  /\ pc = "ConsistencyValidated"
  /\ LET r == userfriendify(self, datakeysList)
     IN /\ err' \in (IF r.err = "IndexError" THEN {"IndexError", "ValueError"}
                     ELSE {r.err})
        /\ self' = r.d
        /\ pc' = Raised(r.err, "Ready")
        /\ SD' = IF r.err = "none" THEN r.d ELSE SD
  /\ UNCHANGED <<file, lineTypeList, datakeysLineIndx, datakeysList, call, result>>

\* SD.smooth(key, kernel, order) on the StaibDat returned (staibdattest.py,
\* lines 285-298).  The methods leave the StaibDat as it is, so that a call
\* does not depend on the calls before it: a behaviour makes one call.
Smooth ==
  /\ pc = "Ready"
  /\ call = NoCall
  /\ \E key \in DOMAIN SD \cup {MissingKey}, kernel \in Kernels, order \in Orders :
       /\ call' = [op |-> "smooth", key |-> key, kernel |-> kernel, order |-> order]
       /\ result' = smooth(SD, key, kernel, order)
  /\ UNCHANGED <<file, pc, err, self, lineTypeList, datakeysLineIndx,
                 datakeysList, SD>>

\* SD.differentiate(key, kernel, order) (staibdattest.py, lines 300-313)
Differentiate ==
  /\ pc = "Ready"
  /\ call = NoCall
  /\ \E key \in DOMAIN SD \cup {MissingKey}, kernel \in Kernels, order \in Orders :
       /\ call' = [op |-> "differentiate", key |-> key, kernel |-> kernel,
                   order |-> order]
       /\ result' = differentiate(SD, key, kernel, order)
  /\ UNCHANGED <<file, pc, err, self, lineTypeList, datakeysLineIndx,
                 datakeysList, SD>>

Next ==
  \/ ReadLines
  \/ Labelstructure
  \/ LocateDatakeys
  \/ Verifystructure
  \/ Parsetext
  \/ Verifydata
  \/ Userfriendify
  \/ Smooth
  \/ Differentiate

Spec == Init /\ [][Next]_vars

(***************************************************************************)
(* Vocabulary of the properties.                                           *)
(***************************************************************************)
\* the import is over: a StaibDat is returned (Ready) or an exception raised
Done == pc \in {"Ready", "Rejected", "Crashed"}
FailedWithFormatError == pc = "Rejected" /\ err = "FormatError"
Labels == labelstructure(file)
TypeOK ==
  /\ pc \in {"Start", "LinesRead", "Classified", "Located", "StructureValidated",
             "Extracted", "ConsistencyValidated", "Ready", "Rejected", "Crashed"}
  /\ err \in {"none", "FormatError", "ParseException", "KeyError", "TypeError",
              "IndexError", "ValueError"}
  /\ (pc = "Rejected") = (err = "FormatError")
  /\ (pc = "Crashed") => err \notin {"none", "FormatError"}

\* the number of data rows of the file
NRows == Count(Labels, "datavalues")
\* the column header line and its descriptors, as parsed
HeaderIndx == Index(Labels, "datakeys")
Header == DatakeysParse(file[HeaderIndx])
SectionOrder == <<"metadata", "reserved", "datakeys", "datavalues">>
\* the file is let through by the first three checks of the validator
PassesOrderChecks ==
  LET labels == Labels
  IN /\ \A i \in 1..Len(labels) : labels[i] /= "other"
     /\ Count(labels, "datakeys") = 1
     /\ Compress(labels) = SectionOrder
     /\ DatakeysParse(file[Index(labels, "datakeys")]).ok
\* the file is let through by the whole validator
StructurallyValid ==
  /\ PassesOrderChecks
  /\ verifystructure(file, Labels, Header.keys, HeaderIndx) = "none"
\* the metadata the file declares: the entries of its metadata lines
Declared == ParseMetadata(EmptyDict, file, Labels, 1).d
\* the file declares a number under the key, bare or with a unit
DeclaresNumber(key) ==
  /\ Has(Declared, key)
  /\ \/ Declared[key].t \in {"int", "float"}
     \/ Declared[key].t = "vu" /\ Declared[key].vt \in {"int", "float"}
\* the i-th data row of a structurally valid file, as numbers
DataRow(i) == DatavaluesParse(file[HeaderIndx + i]).vals
\* the numeric lexemes of a line
NumericTokens(line) == Cardinality({i \in 1..Len(line) : NumWhole(line[i])})

(***************************************************************************)
(* C1: a file with a line labelled "other", at any position, fails with    *)
(* FormatError.                                                            *)
(***************************************************************************)
C1_UnrecognizedLineIsFormatError ==
  (Done /\ \E i \in 1..Len(Labels) : Labels[i] = "other") => FailedWithFormatError

(***************************************************************************)
(* C2: the import succeeds only if the labels, consecutive equal ones      *)
(* collapsed, are metadata, reserved, datakeys, datavalues; any other file *)
(* fails with FormatError.                                                 *)
(***************************************************************************)
C2_SectionOrderOrFormatError ==
  Done => /\ pc = "Ready" => Compress(Labels) = SectionOrder
          /\ Compress(Labels) /= SectionOrder => FailedWithFormatError

(***************************************************************************)
(* C3: the import succeeds only if exactly one line is labelled datakeys;  *)
(* a file with none or several fails with FormatError.                     *)
(***************************************************************************)
C3_OneHeaderOrFormatError ==
  Done => /\ pc = "Ready" => Count(Labels, "datakeys") = 1
          /\ Count(Labels, "datakeys") /= 1 => FailedWithFormatError

(***************************************************************************)
(* C4: a file that passes the section order checks and has a line after    *)
(* the header whose number of numeric tokens differs from the number of    *)
(* column headers fails with FormatError.  The row counts as differing     *)
(* when both the numeric lexemes of the line and the numbers parsed from   *)
(* its start differ in number from the headers.                            *)
(***************************************************************************)
C4_RowLengthMismatchIsFormatError ==
  (/\ Done
   /\ PassesOrderChecks
   /\ \E i \in (HeaderIndx + 1)..Len(file) :
        /\ NumericTokens(file[i]) /= Len(Header.keys)
        /\ Len(DatavaluesParse(file[i]).vals) /= Len(Header.keys))
  => FailedWithFormatError

(***************************************************************************)
(* C5: in the dictionary of an accepted file of N data rows DataPoints is  *)
(* N and every column, KE, BE and every Cn has N values.                   *)
(***************************************************************************)
C5_AllLengthsAreRowCount ==
  pc = "Ready" =>
    /\ self["DataPoints"].t \in {"int", "float"}
    /\ AsFloat(self["DataPoints"]) = Float(NRows)
    /\ \A k \in 1..Len(datakeysList) : Len(self[datakeysList[k].key].a) = NRows
    /\ Len(self["KE"].a) = NRows
    /\ Len(self["BE"].a) = NRows
    /\ \A n \in 1..(Len(datakeysList) - 1) :
         Has(self, "C" \o Str[n]) /\ Len(self["C" \o Str[n]].a) = NRows

(***************************************************************************)
(* C6, as stated: KE is Basis / 1000, BE is SourceEnergy - KE, and BE      *)
(* equals KE when SourceEnergy is 0.                                       *)
(***************************************************************************)
KEisBasisOver1000 ==
  self["KE"].a = [i \in 1..Len(self["Basis"].a) |-> Div1000(self["Basis"].a[i])]
BEisSourceMinusKE ==
  self["BE"].a = [i \in 1..Len(self["KE"].a) |->
                    AsFloat(self["SourceEnergy"]) - self["KE"].a[i]]

C6_BEequalsKEatZeroSource ==
  pc = "Ready" =>
    /\ KEisBasisOver1000
    /\ BEisSourceMinusKE
    /\ AsFloat(self["SourceEnergy"]) = 0 => self["BE"].a = self["KE"].a

(***************************************************************************)
(* C7: in the dictionary of an accepted file Cn holds the (n+1)-th number  *)
(* of every data row, in file order, and equals the values stored under    *)
(* the n-th header after the first.                                        *)
(***************************************************************************)
C7_ChannelIsColumnByPosition ==
  pc = "Ready" =>
    \A n \in 1..(Len(datakeysList) - 1) :
      /\ Has(self, "C" \o Str[n])
      /\ self["C" \o Str[n]].a = [i \in 1..NRows |-> DataRow(i)[n + 1]]
      /\ self["C" \o Str[n]].a = self[datakeysList[n + 1].key].a

(***************************************************************************)
(* C8: a structurally valid file with a Basis column whose declared        *)
(* DataPoints is not the number of its data rows fails with FormatError.   *)
(***************************************************************************)
C8_WrongDataPointsIsFormatError ==
  (/\ Done
   /\ StructurallyValid
   /\ Header.keys[1].key = "Basis"
   /\ \A k \in 2..Len(Header.keys) : Header.keys[k].key /= "Basis"
   /\ Has(Declared, "DataPoints")
   /\ ~ (DeclaresNumber("DataPoints")
         /\ AsFloat(Declared["DataPoints"]) = Float(NRows)))
  => FailedWithFormatError

(***************************************************************************)
(* C9: the import succeeds only if the declared Startenergy and Stopenergy *)
(* agree, rounded to 2 decimals, with the first and the last Basis value   *)
(* / 1000; a file with a Basis column that declares a boundary that does   *)
(* not agree fails with FormatError.                                       *)
(***************************************************************************)
BoundaryDisagrees(key, row) ==
  /\ DeclaresNumber(key)
  /\ Round2(AsFloat(Declared[key])) /= Round2(Div1000(DataRow(row)[1]))

C9_BoundaryMismatchIsFormatError ==
  Done =>
    /\ pc = "Ready" =>
         /\ Round2(AsFloat(self["Startenergy"]))
              = Round2(Div1000(self["Basis"].a[1]))
         /\ Round2(AsFloat(self["Stopenergy"]))
              = Round2(Div1000(self["Basis"].a[Len(self["Basis"].a)]))
    /\ (/\ StructurallyValid
        /\ Header.keys[1].key = "Basis"
        /\ BoundaryDisagrees("Startenergy", 1) \/ BoundaryDisagrees("Stopenergy", NRows))
       => FailedWithFormatError

(***************************************************************************)
(* C10: the import succeeds only if the differences of successive Basis    *)
(* values, / 1000 and rounded to 2 decimals, are one number that is the    *)
(* declared Stepwidth rounded to 2 decimals; a file of two rows or more    *)
(* with a Basis column that declares a Stepwidth for which this is not so  *)
(* fails with FormatError.                                                 *)
(***************************************************************************)
StepsAre(basis, step) ==
  \A i \in 1..(Len(basis) - 1) : Round2(Div1000(basis[i + 1] - basis[i])) = step

C10_StepMismatchIsFormatError ==
  Done =>
    /\ pc = "Ready" =>
         StepsAre(self["Basis"].a, Round2(AsFloat(self["Stepwidth"])))
    /\ (/\ StructurallyValid
        /\ Header.keys[1].key = "Basis"
        /\ NRows >= 2
        /\ DeclaresNumber("Stepwidth")
        /\ ~ StepsAre([i \in 1..NRows |-> DataRow(i)[1]],
                      Round2(AsFloat(Declared["Stepwidth"]))))
       => FailedWithFormatError
(***************************************************************************)
(* Vocabulary of C11: the file is an accepted file with the Basis value of *)
(* one data row changed.                                                   *)
(***************************************************************************)
\* the file f with the first token of line i replaced by b
ChangeBasis(f, i, b) == [f EXCEPT ![i] = [@ EXCEPT ![1] = b]]
\* the Basis values of a file whose data rows parse: the first number of
\* every line after the header
BasisOf(f) ==
  LET h == Index(labelstructure(f), "datakeys")
  IN [i \in 1..(Len(f) - h) |-> DatavaluesParse(f[h + i]).vals[1]]
\* an arithmetic progression, exactly
IsProgression(basis) ==
  \A i \in 1..(Len(basis) - 2) :
    basis[i + 1] - basis[i] = basis[i + 2] - basis[i + 1]
\* an arithmetic progression at 2 decimals: the differences / 1000, rounded
\* to 2 decimals, are all equal
IsRoundedProgression(basis) ==
  \A i \in 1..(Len(basis) - 2) :
    Round2(Div1000(basis[i + 1] - basis[i]))
      = Round2(Div1000(basis[i + 2] - basis[i + 1]))
\* the file has data rows, each a sequence of numbers from its start on
RowsParse ==
  /\ PassesOrderChecks
  /\ \A i \in (HeaderIndx + 1)..Len(file) : DatavaluesParse(file[i]).ok
\* the Basis values of the file
FileBasis == IF RowsParse THEN BasisOf(file) ELSE << >>
\* the accepted files the file differs from in one Basis value only
AcceptedOriginals ==
  IF ~ RowsParse THEN {}
  ELSE LET h == HeaderIndx
       IN {g \in {ChangeBasis(file, i, b) :
                    i \in (h + 1)..Len(file), b \in NumvalueLex} :
             g /= file /\ Accepts(g)}

(***************************************************************************)
(* C11, as stated: an accepted file whose Basis values are an arithmetic   *)
(* progression, with one Basis value changed so that they are not one any  *)
(* more, fails with FormatError.                                           *)
(***************************************************************************)
C11_BrokenProgressionIsFormatError ==
  (/\ Done
   /\ ~ IsProgression(FileBasis)
   /\ \E g \in AcceptedOriginals : IsProgression(BasisOf(g)))
  => FailedWithFormatError

(***************************************************************************)
(* C11, amended: an accepted file with one Basis value changed so that the *)
(* differences of successive Basis values, / 1000 and rounded to 2         *)
(* decimals, are not all equal any more, fails with FormatError.           *)
(***************************************************************************)
C11_BrokenRoundedProgressionIsFormatError ==
  (/\ Done
   /\ ~ IsRoundedProgression(FileBasis)
   /\ AcceptedOriginals /= {})
  => FailedWithFormatError

\* a changed file that declares the first and the last Basis value it has,
\* and whose last difference is the declared Stepwidth: only the test that
\* the differences are equal rejects it
C11_Witness ==
  /\ FailedWithFormatError
  /\ ~ IsRoundedProgression(FileBasis)
  /\ AcceptedOriginals /= {}
  /\ ~ BoundaryDisagrees("Startenergy", 1)
  /\ ~ BoundaryDisagrees("Stopenergy", NRows)
  /\ diffList(BasisOf(file))[1] = Round2(AsFloat(Declared["Stepwidth"]))
(***************************************************************************)
(* C12: the import of any file has two outcomes only: a StaibDat is        *)
(* returned or FormatError is raised; no other exception is raised.        *)
(***************************************************************************)
C12_OnlyDatasetOrFormatError ==
  Done => \/ pc = "Ready" /\ err = "none"
          \/ FailedWithFormatError
(***************************************************************************)
(* C13: a StaibDat is returned to the caller from Ready only, Ready is     *)
(* reached only after the structure validation and the consistency check   *)
(* have passed, and a validation that does not pass leads to Rejected,     *)
(* which is terminal and returns no StaibDat.                              *)
(***************************************************************************)
\* the dictionary __parsetext extracts from the file
Extracted ==
  parsetext(Put(Put(EmptyDict, "filename", StrV(FileName)), "fileText",
                LinesV(file)),
            file, Labels, Header.keys, HeaderIndx).d

C13_ReturnedOnlyFromReady ==
  /\ SD /= NoDataset => pc = "Ready" /\ SD = self
  /\ pc = "Ready" => /\ SD /= NoDataset
                     /\ StructurallyValid
                     /\ verifydata(Extracted) = "none"
  /\ pc = "Rejected" => SD = NoDataset

C13_ValidationFailureIsRejected ==
  /\ (pc = "Located" /\ pc' /= "StructureValidated") => pc' = "Rejected"
  /\ (pc = "Extracted" /\ pc' /= "ConsistencyValidated") => pc' = "Rejected"
  /\ pc /= "Rejected"

C13_StateMachine ==
  [] C13_ReturnedOnlyFromReady /\ [][C13_ValidationFailureIsRejected]_vars
(***************************************************************************)
(* Vocabulary of C14 and C15: the call of smooth or differentiate made on  *)
(* the StaibDat returned.                                                  *)
(***************************************************************************)
Called == pc = "Ready" /\ call.op \in {"smooth", "differentiate"}
\* the key of the call holds a numpy array
CallOnArray == Called /\ Has(SD, call.key) /\ SD[call.key].t = "arr"
\* window odd and positive, window >= order + 2, of a polynomial order
AcceptedPair ==
  /\ call.kernel > 0
  /\ call.kernel % 2 = 1
  /\ call.order >= 0
  /\ call.kernel >= call.order + 2
\* one sample per sample of data: the window of kernel values around it,
\* with 0 where the window leaves the data
PaddedWindows(data, kernel) ==
  [i \in 1..Len(data) |->
     [k \in 1..kernel |->
        LET j == i + k - 1 - ((kernel - 1) \div 2)
        IN IF j \in 1..Len(data) THEN data[j] ELSE 0]]
SameLengthReturned ==
  /\ result.err = "none"
  /\ Len(result.a) = Len(SD[call.key].a)
  /\ result.a = PaddedWindows(SD[call.key].a, call.kernel)

(***************************************************************************)
(* C14, as stated: smooth and differentiate of a numeric array of length L *)
(* with an accepted kernel and order return an array of length L, one      *)
(* sample per sample of the array padded with half-window zeros.           *)
(***************************************************************************)
C14_FilterKeepsLength ==
  (CallOnArray /\ AcceptedPair) => SameLengthReturned

(***************************************************************************)
(* C14, amended: as stated, with an order of 1 or more for differentiate.  *)
(***************************************************************************)
C14_FilterKeepsLengthPositiveOrder ==
  (CallOnArray /\ AcceptedPair
     /\ (call.op = "differentiate" => call.order >= 1))
  => SameLengthReturned

\* differentiate with the default kernel and order on an array shorter than
\* half the window: every sample is influenced by the padding
C14_Witness ==
  /\ CallOnArray
  /\ call.op = "differentiate"
  /\ call.kernel = DefaultKernel /\ call.order = DefaultOrder
  /\ Len(SD[call.key].a) \in 2..((DefaultKernel - 1) \div 2)
  /\ SameLengthReturned

(***************************************************************************)
(* C15, as stated: smooth and differentiate with the key "fileText", whose *)
(* value is the list of the lines, fail with TypeError and return no       *)
(* array.                                                                  *)
(***************************************************************************)
C15_FilterOnLinesIsTypeError ==
  (Called /\ call.key = "fileText") => result = SGResult("TypeError", << >>)

\* differentiate with order 0 and a kernel and order that pass the tests of
\* the parameters: the row of the derivative is missing (line 383)
DerivativeRowMissing == call.op = "differentiate" /\ call.order = 0 /\ AcceptedPair

(***************************************************************************)
(* C15, amended: smooth and differentiate with the key "fileText" return   *)
(* no array and fail with TypeError, except differentiate with order 0 and *)
(* a kernel that passes the tests of the parameters, which fails with      *)
(* IndexError.                                                             *)
(***************************************************************************)
C15_FilterOnLinesFails ==
  (Called /\ call.key = "fileText") =>
    result = SGResult(IF DerivativeRowMissing THEN "IndexError" ELSE "TypeError",
                      << >>)

\* a call with the default kernel and order: the TypeError is raised by the
\* sum over the window, not by the tests of the parameters
C15_Witness ==
  /\ Called
  /\ call.key = "fileText"
  /\ SD["fileText"].t = "lines" /\ SD["fileText"].l /= << >>
  /\ call.kernel = DefaultKernel /\ call.order = DefaultOrder
  /\ result.err = "TypeError"
(***************************************************************************)
(* Vocabulary of C16 and C17: the labels __labelstructure has given to the *)
(* lines of the file.                                                      *)
(***************************************************************************)
Labelled == pc \notin {"Start", "LinesRead"}
\* the content of the line, trimmed, is exactly the marker
ReservedMarker(line) == line = <<"reserved">>
\* the label of the line in a file of which it is the only line
AloneLabel(line) == labelstructure(<< line >>)[1]
\* the first pattern that matches, in the order Metadata, Reserved, DataRow,
\* ColumnHeaders, with the marker as the Reserved pattern
FirstMatch(line) ==
  IF MetadataSearch(line) THEN "metadata"
  ELSE IF ReservedMarker(line) THEN "reserved"
  ELSE IF DatavaluesSearch(line) THEN "datavalues"
  ELSE IF DatakeysSearch(line) THEN "datakeys"
  ELSE "other"

(***************************************************************************)
(* C16: every line is labelled independently of the other lines with the   *)
(* first pattern that matches in the order Metadata, Reserved, DataRow,    *)
(* ColumnHeaders, else Unrecognized; a line that matches Metadata is       *)
(* Metadata, a line that matches DataRow and ColumnHeaders is DataRow, and *)
(* a line of fewer than two tokens that is not the reserved marker is      *)
(* Unrecognized.                                                           *)
(***************************************************************************)
C16_FirstMatchInFixedOrder ==
  Labelled =>
    \A i \in 1..Len(file) :
      LET line == file[i]
          label == lineTypeList[i]
      IN /\ label = AloneLabel(line)
         /\ label = FirstMatch(line)
         /\ MetadataSearch(line) => label = "metadata"
         /\ (/\ ~ MetadataSearch(line) /\ ~ ReservedMarker(line)
             /\ DatavaluesSearch(line) /\ DatakeysSearch(line))
            => label = "datavalues"
         /\ (Len(line) < 2 /\ ~ ReservedMarker(line)) => label = "other"

(***************************************************************************)
(* C17: a line is labelled reserved if and only if it does not match       *)
(* Metadata and its content, trimmed, is exactly the marker "reserved"; a  *)
(* line with "reserved" and other text is not labelled reserved.           *)
(***************************************************************************)
C17_ReservedIsExactlyTheMarker ==
  Labelled =>
    \A i \in 1..Len(file) :
      /\ lineTypeList[i] = "reserved"
           <=> (~ MetadataSearch(file[i]) /\ ReservedMarker(file[i]))
      /\ (ReservedSearch(file[i]) /\ ~ ReservedMarker(file[i]))
           => lineTypeList[i] /= "reserved"
(***************************************************************************)
(* Vocabulary of C18: the entries the metadata lines of the file stand     *)
(* for.                                                                    *)
(***************************************************************************)
\* the lines labelled metadata, once the lines are labelled
MetadataLines == {i \in 1..Len(lineTypeList) : lineTypeList[i] = "metadata"}
\* the key of the line, all whitespace removed
KeyOf(i) == Concat(MetadataParse(file[i]).key)
\* no later metadata line has the same key
LastOfKey(i) == \A j \in MetadataLines : j > i => KeyOf(j) /= KeyOf(i)
\* the value of the line: an integer if possible, else a float if possible,
\* else the string of its tokens
ValueOf(i) ==
  LET tokens == MetadataParse(file[i]).value
  IN IF Len(tokens) = 1 /\ tokens[1] \in NumLex
     THEN [V0 EXCEPT !.t = "int", !.n = NumVal[tokens[1]]]
     ELSE IF Len(tokens) = 1 /\ tokens[1] \in DecLex
     THEN [V0 EXCEPT !.t = "float", !.n = DecMilli[tokens[1]]]
     ELSE [V0 EXCEPT !.t = "str", !.s = JoinSp(tokens)]
\* {value, unit} when the key has a unit, the bare value otherwise
EntryOf(i) ==
  LET unit == MetadataParse(file[i]).unit
  IN IF unit /= ""
     THEN [ValueOf(i) EXCEPT !.t = "vu", !.vt = ValueOf(i).t, !.u = unit]
     ELSE ValueOf(i)
\* the keys the import writes after the metadata: the columns and the
\* derived arrays
WrittenLater ==
  {datakeysList[k].key : k \in 1..Len(datakeysList)}
    \cup {"KE", "BE"}
    \cup {"C" \o Str[n] : n \in 1..(Len(datakeysList) - 1)}

(***************************************************************************)
(* C18, as stated: the StaibDat of an accepted file maps the key of every  *)
(* metadata line, whitespace removed, to the value of the last line of     *)
(* that key: an integer if possible, else a float, else the string, with   *)
(* the unit exactly when the key has one.                                  *)
(***************************************************************************)
C18_MetadataEntryOfLastLine ==
  pc = "Ready" =>
    \A i \in MetadataLines :
      LastOfKey(i) => (Has(SD, KeyOf(i)) /\ SD[KeyOf(i)] = EntryOf(i))

(***************************************************************************)
(* C18, amended: as stated, for the keys that are not the name of a column *)
(* nor KE, BE or a Cn; under such a key the StaibDat holds the column or   *)
(* the derived array.                                                      *)
(***************************************************************************)
C18_MetadataEntryUnlessWrittenLater ==
  pc = "Ready" =>
    \A i \in MetadataLines :
      /\ Has(SD, KeyOf(i))
      /\ (LastOfKey(i) /\ KeyOf(i) \notin WrittenLater)
           => SD[KeyOf(i)] = EntryOf(i)
      /\ KeyOf(i) \in WrittenLater => SD[KeyOf(i)].t \in {"col", "arr"}

\* an accepted file with two lines of one key and different values, the
\* later of which is stored, with an integer value and with a float value
\* that has a unit
C18_Witness ==
  /\ pc = "Ready"
  /\ \E i, j \in MetadataLines :
       i < j /\ KeyOf(i) = KeyOf(j) /\ EntryOf(i) /= EntryOf(j)
         /\ SD[KeyOf(i)] = EntryOf(j)
  /\ \E i \in MetadataLines : SD[KeyOf(i)].t = "int"
  /\ \E i \in MetadataLines : SD[KeyOf(i)].t = "vu" /\ SD[KeyOf(i)].vt = "float"
  /\ \E i \in MetadataLines : KeyOf(i) = "Stopenergy"

(***************************************************************************)
(* Vocabulary of C19: the passes of one import and what each has produced. *)
(***************************************************************************)
\* the positions of the import at which structure validation has passed
AfterStructureValidation ==
  {"StructureValidated", "Extracted", "ConsistencyValidated", "Ready"}
\* a step parses line content into what extraction stores: the column list
\* of the header line, or an entry of the dictionary other than the two
\* written when the file is read
ParsesForExtraction ==
  \/ datakeysList' /= datakeysList
  \/ (pc /= "Start" /\ self' /= self)
\* a step parses for extraction only once structure validation has passed
ExtractionAfterValidation ==
  ParsesForExtraction => pc \in AfterStructureValidation
\* the consistency check is about to run only on a file whose structure
\* validation passed
CheckAfterValidStructure ==
  pc = "Extracted" =>
    verifystructure(file, lineTypeList, datakeysList, datakeysLineIndx) = "none"
\* the derived arrays are about to be computed only for a file whose
\* consistency check passed
DeriveAfterConsistent ==
  pc = "ConsistencyValidated" => verifydata(self) = "none"
\* a step computes the derived arrays only from that position
DeriveLast ==
  (SD' /= SD \/ (pc' = "Ready" /\ pc /= "Ready")) => pc = "ConsistencyValidated"

(***************************************************************************)
(* C19: the passes of one import run in the order classify, validate       *)
(* structure, extract, check consistency, derive: no step parses line      *)
(* content for extraction before structure validation has passed, the      *)
(* consistency check never runs on a file that failed structure            *)
(* validation, and the derived arrays are never computed for a file that   *)
(* failed the consistency check.                                           *)
(***************************************************************************)
C19_StrictPassOrder ==
  /\ [] (CheckAfterValidStructure /\ DeriveAfterConsistent)
  /\ [][ExtractionAfterValidation /\ DeriveLast]_vars
====
